---- MODULE Spec2Model ----
(***************************************************************************)
(* A model of malefico.core.executor.MesosExecutorDriver: the inbound      *)
(* event dispatcher (_handle_events and the on_* handlers), the driver     *)
(* calls update(), message() and gen_request(), and the forced-kill timer  *)
(* thread started by _delay_kill().                                        *)
(*                                                                         *)
(* The executor object (the callback sink) and the MesosConnection base    *)
(* class are outside the modelled file: a callback is an input whose       *)
(* outcome is drawn from CallbackOutcomes, and stop()/abort() are recorded *)
(* as calls made by the driver.                                            *)
(***************************************************************************)
EXTENDS Integers, Sequences, FiniteSets, TLC

\* ------------------------------------------------------------------ bounds
MaxTasks == 2
MaxTokens == 1
MaxSteps == 3
MaxClock == 1

TaskIds == 1..MaxTasks
\* The contents of a TaskInfo besides its id; two values, so that an
\* overwrite of a tracked task is visible.
TaskSpecs == {"specA", "specB"}
\* 16-byte update tokens, as byte strings.
Tokens == 1..MaxTokens
\* A byte string whose length is not 16.
ShortBytes == 0
\* The values int(time.time()) returns.
Times == 1..MaxClock

\* Python's None, as a record: it is compared with dicts.
None == [none |-> TRUE]
NoExc == "no_exception"

\* ---------------------------------------------------------------- identity
\* env['MESOS_FRAMEWORK_ID'] and env['MESOS_EXECUTOR_ID'] wrapped in dicts.
framework_id == [value |-> "F1"]
executor_id == [value |-> "E1"]
FrameworkIds == {"F1", "F2"}
ExecutorIds == {"E1", "E2"}

\* ----------------------------------------------------------- conversions
\* utils.encode_data / utils.decode_data: base64 transport of bytes.
encode_data(b) == <<"b64", b>>
decode_data(s) == s[2]
\* uuid.UUID(bytes=b) accepts exactly 16 bytes and raises ValueError
\* otherwise.
UUIDValid(b) == b # ShortBytes
UUID(b) == <<"UUID", b>>

\* --------------------------------------------------------------- executor
\* What a call into the executor object can do: return, raise an Exception,
\* or never return.
CallbackOutcomes == {"ok", "raise", "hang"}
\* The callbacks whose invocations are counted over the whole run; every
\* invocation, counted or not, is recorded in the effects of its step.
CountedCallbacks == {"on_registered", "on_reregistered", "on_launch"}

VARIABLES
    \* MesosExecutorDriver fields
    tasks,            \* self.tasks: task id -> task_info
    updates,          \* self.updates: UUID -> status
    executor_info,    \* self.executor_info (None until registered)
    framework_info,   \* self.framework_info (None until registered)
    checkpoint,       \* self.checkpoint
    local,            \* self.local
    \* calls the driver has made into its collaborators
    calls,            \* counted executor callback -> number of invocations
    stopCalls,        \* number of self.stop() calls
    abortCalls,       \* number of self.abort() calls
    \* the forced-kill threads of _delay_kill
    timersStarted,    \* threads started
    timersFired,      \* threads that have passed the sleep and called killpg
    killed,           \* os.killpg(0, SIGKILL) succeeded: the process is gone
    \* the event-processing loop
    loop,             \* "running", "hung" (in a callback) or "crashed"
    steps,            \* events dispatched and driver calls made so far
    \* history of the run
    sent,             \* <<task id, token>> of statuses passed to update() and
                      \* not acknowledged since
    launched,         \* task id -> number of well-formed launch events
    ackSeen,          \* an ACKNOWLEDGED event has been dispatched
    subscribedOk,     \* number of SUBSCRIBED events with matching identity
    ackedAfterUpdate, \* task ids acknowledged with the token of one of their
                      \* updates and not launched again since
    raised,           \* executor callback exceptions the dispatcher has logged
    last              \* the most recent step of the loop, by its kind when it
                      \* is one that changes no field, "other" otherwise

vars == <<tasks, updates, executor_info, framework_info, checkpoint, local,
          calls, stopCalls, abortCalls, timersStarted, timersFired, killed,
          loop, steps,
          sent, launched, ackSeen, subscribedOk, ackedAfterUpdate, raised,
          last>>

\* ------------------------------------------------------------ driver state
\* The driver's fields and collaborator calls as one value d, threaded through
\* a handler; d.exc is the exception the handler is raising (NoExc when it
\* returns) and d.hang says that it is stuck inside an executor callback.
Drv == [tasks |-> tasks, updates |-> updates,
        executor_info |-> executor_info, framework_info |-> framework_info,
        calls |-> calls, stopCalls |-> stopCalls, abortCalls |-> abortCalls,
        timersStarted |-> timersStarted,
        eff |-> <<>>, exc |-> NoExc, hang |-> FALSE]

Raise(d, e) == [d EXCEPT !.exc = e, !.eff = Append(@, "raise:" \o e)]
Interrupted(d) == d.exc # NoExc \/ d.hang

\* self.executor.<name>(self, ...)
CallExecutor(d, name, out) ==
    LET d1 == [d EXCEPT !.calls = IF name \in DOMAIN @
                                  THEN [@ EXCEPT ![name] = @ + 1] ELSE @,
                        !.eff = Append(@, "call:" \o name)]
    IN  CASE out = "ok" -> d1
          [] out = "raise" -> Raise(d1, "Exception")
          [] out = "hang" -> [d1 EXCEPT !.hang = TRUE]

\* dict.pop(key, None)
Pop(f, k) == [x \in DOMAIN f \ {k} |-> f[x]]
\* dict[key] = value
Put(f, k, v) == [x \in DOMAIN f \cup {k} |-> IF x = k THEN v ELSE f[x]]

\* self.stop() / self.abort() of MesosConnection
stop(d) == [d EXCEPT !.stopCalls = @ + 1, !.eff = Append(@, "stop")]
abort(d) == [d EXCEPT !.abortCalls = @ + 1, !.eff = Append(@, "abort")]

\* Thread(target=_).start() with daemon = True
_delay_kill(d) == [d EXCEPT !.timersStarted = @ + 1, !.eff = Append(@, "arm_timer")]

\* ---------------------------------------------------------------- handlers
\* Each handler maps the driver state d, the event payload and the outcome of
\* the executor callback it reaches to the driver state it leaves behind.

\* on_subscribed with the registration recorded only after the registered
\* callback has returned.
on_subscribed_store_after(d, info, out) ==
    IF info.executor_info.executor_id # executor_id THEN Raise(d, "AssertionError")
    ELSE IF info.framework_info.id # framework_id THEN Raise(d, "AssertionError")
    ELSE IF d.executor_info = None \/ d.framework_info = None
         THEN LET d1 == CallExecutor(d, "on_registered", out)
              IN  IF Interrupted(d1) THEN d1
                  ELSE [d1 EXCEPT !.executor_info = info.executor_info,
                                  !.framework_info = info.framework_info]
         ELSE CallExecutor(d, "on_reregistered", out)

\* on_subscribed that records the infos of every SUBSCRIBED event.
on_subscribed_always_stores(d, info, out) ==
    IF info.executor_info.executor_id # executor_id THEN Raise(d, "AssertionError")
    ELSE IF info.framework_info.id # framework_id THEN Raise(d, "AssertionError")
    ELSE CallExecutor([d EXCEPT !.executor_info = info.executor_info,
                                !.framework_info = info.framework_info],
                      IF d.executor_info = None \/ d.framework_info = None
                      THEN "on_registered" ELSE "on_reregistered", out)

on_subscribed(d, info, out) ==
    IF info.executor_info.executor_id # executor_id THEN Raise(d, "AssertionError")
    ELSE IF info.framework_info.id # framework_id THEN Raise(d, "AssertionError")
    ELSE IF d.executor_info = None \/ d.framework_info = None
         THEN CallExecutor([d EXCEPT !.executor_info = info.executor_info,
                                     !.framework_info = info.framework_info],
                           "on_registered", out)
         ELSE CallExecutor(d, "on_reregistered", out)

\* on_close that does not read the checkpoint flag.
on_close_ignores_checkpoint(d, out) ==
    LET d1 == IF ~local THEN _delay_kill(d) ELSE d
        d2 == CallExecutor(d1, "shutdown", out)
    IN  IF Interrupted(d2) THEN d2 ELSE abort(d2)

on_close(d, out) ==
    IF ~checkpoint
    THEN LET d1 == IF ~local THEN _delay_kill(d) ELSE d
             d2 == CallExecutor(d1, "shutdown", out)
         IN  IF Interrupted(d2) THEN d2 ELSE abort(d2)
    ELSE d

on_launch_group(d, event, out) ==
    LET task_info == event.task
        task_id == task_info.task_id.value
    IN  IF task_id \in DOMAIN d.tasks THEN Raise(d, "AssertionError")
        ELSE CallExecutor([d EXCEPT !.tasks = Put(@, task_id, task_info)],
                          "on_launch", out)

\* on_launch with the task recorded only after the launch callback has
\* returned.
on_launch_callback_first(d, event, out) ==
    LET task_info == event.task
        task_id == task_info.task_id.value
    IN  IF task_id \in DOMAIN d.tasks THEN Raise(d, "AssertionError")
        ELSE LET d1 == CallExecutor(d, "on_launch", out)
             IN  IF Interrupted(d1) THEN d1
                 ELSE [d1 EXCEPT !.tasks = Put(@, task_id, task_info)]

\* on_launch without the assertion: a launch for a tracked id overwrites.
on_launch_overwrites(d, event, out) ==
    LET task_info == event.task
        task_id == task_info.task_id.value
    IN  CallExecutor([d EXCEPT !.tasks = Put(@, task_id, task_info)],
                     "on_launch", out)

on_launch(d, event, out) ==
    LET task_info == event.task
        task_id == task_info.task_id.value
    IN  IF task_id \in DOMAIN d.tasks THEN Raise(d, "AssertionError")
        ELSE CallExecutor([d EXCEPT !.tasks = Put(@, task_id, task_info)],
                          "on_launch", out)

\* on_kill that also stops tracking the task it is told to kill.
on_kill_forgets_task(d, event, out) ==
    CallExecutor([d EXCEPT !.tasks = Pop(@, event.task_id.value)], "on_kill", out)

on_kill(d, event, out) == CallExecutor(d, "on_kill", out)

\* on_acknowledged without the second pop: the task stays tracked.
on_acknowledged_keeps_task(d, event) ==
    LET bytes == decode_data(event.uuid)
    IN  IF ~UUIDValid(bytes) THEN Raise(d, "ValueError")
        ELSE [d EXCEPT !.updates = Pop(@, UUID(bytes))]

\* on_acknowledged dropping the task only together with a pending update.
on_acknowledged_if_pending(d, event) ==
    LET task_id == event.task_id.value
        bytes == decode_data(event.uuid)
    IN  IF ~UUIDValid(bytes) THEN Raise(d, "ValueError")
        ELSE IF UUID(bytes) \in DOMAIN d.updates
        THEN [d EXCEPT !.updates = Pop(@, UUID(bytes)),
                       !.tasks = Pop(@, task_id)]
        ELSE d

on_acknowledged(d, event) ==
    LET task_id == event.task_id.value
        bytes == decode_data(event.uuid)
    IN  IF ~UUIDValid(bytes) THEN Raise(d, "ValueError")
        ELSE [d EXCEPT !.updates = Pop(@, UUID(bytes)),
                       !.tasks = Pop(@, task_id)]

on_message(d, event, out) == CallExecutor(d, "on_message", out)

on_error(d, event, out) == CallExecutor(d, "on_error", out)

\* on_shutdown that arms the forced kill whatever the local flag says.
on_shutdown_always_arms(d, out) ==
    LET d2 == CallExecutor(_delay_kill(d), "on_shutdown", out)
    IN  IF Interrupted(d2) THEN d2 ELSE stop(d2)

on_shutdown(d, out) ==
    LET d1 == IF ~local THEN _delay_kill(d) ELSE d
        d2 == CallExecutor(d1, "on_shutdown", out)
    IN  IF Interrupted(d2) THEN d2 ELSE stop(d2)

\* -------------------------------------------------------------- dispatcher
\* The keys of self._handlers.
HandlerTypes == {"SUBSCRIBED", "MESSAGE", "LAUNCH", "LAUNCH_GROUP", "KILL",
                 "ACKNOWLEDGED", "SHUTDOWN", "ERROR", "CLOSE"}

\* A dispatcher whose except clause names the lookup errors only.
Catches_only_lookup(exc) == exc \in {"KeyError"}

\* The classes that `except Exception` catches, among those a handler raises.
Catches(exc) ==
    exc \in {"Exception", "AssertionError", "KeyError", "TypeError", "ValueError"}

\* The payload message[_type.lower()] of each event type.
Payload(m) ==
    CASE m.type = "SUBSCRIBED" ->
            [executor_info |-> [executor_id |-> [value |-> m.ex]],
             framework_info |-> [id |-> [value |-> m.fw]],
             agent_info |-> "agent"]
      [] m.type \in {"LAUNCH", "LAUNCH_GROUP"} ->
            [task |-> [task_id |-> [value |-> m.task_id], spec |-> m.spec]]
      [] m.type = "ACKNOWLEDGED" ->
            [task_id |-> [value |-> m.task_id], uuid |-> m.uuid]
      [] m.type = "KILL" -> [task_id |-> [value |-> m.task_id]]
      [] m.type = "ERROR" -> [message |-> "message"]
      [] OTHER -> [data |-> "data"]

\* The handler call of _handle_events, inside its try block.
CallHandler(d, m, out) ==
    IF m.type = "SHUTDOWN" THEN on_shutdown(d, out)
    ELSE IF ~m.hasPayload THEN Raise(d, "KeyError")
    ELSE CASE m.type = "SUBSCRIBED" -> on_subscribed(d, Payload(m), out)
           [] m.type = "MESSAGE" -> on_message(d, Payload(m), out)
           [] m.type = "LAUNCH" -> on_launch(d, Payload(m), out)
           [] m.type = "LAUNCH_GROUP" -> on_launch_group(d, Payload(m), out)
           [] m.type = "KILL" -> on_kill(d, Payload(m), out)
           [] m.type = "ACKNOWLEDGED" -> on_acknowledged(d, Payload(m))
           [] m.type = "ERROR" -> on_error(d, Payload(m), out)
           \* on_close(self) takes no event argument
           [] m.type = "CLOSE" -> Raise(d, "TypeError")

\* A dispatcher that looks the handler up without the membership test and
\* has no except clause around the lookup: an unknown type ends the loop.
_handle_events_unknown_fatal(d, m, out) ==
    IF m.type \in HandlerTypes
    THEN LET r == CallHandler(d, m, out)
         IN  IF r.exc # NoExc /\ Catches(r.exc)
             THEN [r EXCEPT !.exc = NoExc, !.eff = Append(@, "log_exception")]
             ELSE r
    ELSE Raise(d, "LookupError")

\* _handle_events: the driver state after the message, and in d.exc what
\* leaves the coroutine (NoExc when the exception was caught and logged).
_handle_events(d, m, out) ==
    IF m.type \in HandlerTypes
    THEN LET r == CallHandler(d, m, out)
         IN  IF r.exc # NoExc /\ Catches(r.exc)
             THEN [r EXCEPT !.exc = NoExc, !.eff = Append(@, "log_exception")]
             ELSE r
    ELSE [d EXCEPT !.eff = Append(@, "warn_unhandled")]

\* ------------------------------------------------------------ driver calls
\* list(dict.values()): the values in the dict's iteration order, an order no
\* caller relies on.
RECURSIVE Values(_)
Values(f) ==
    IF DOMAIN f = {} THEN <<>>
    ELSE LET k == CHOOSE x \in DOMAIN f : TRUE
         IN  <<f[k]>> \o Values(Pop(f, k))

\* A SUBSCRIBE request that names the driver and lists no task.
gen_request_without_tasks(d) ==
    [type |-> "SUBSCRIBE",
     framework_id |-> framework_id,
     executor_id |-> executor_id,
     subscribe |-> [unacknowledged_tasks |-> <<>>,
                    unacknowledged_updates |-> Values(d.updates)]]

\* The body of the SUBSCRIBE request gen_request builds.
gen_request(d) ==
    [type |-> "SUBSCRIBE",
     framework_id |-> framework_id,
     executor_id |-> executor_id,
     subscribe |-> [unacknowledged_tasks |-> Values(d.tasks),
                    unacknowledged_updates |-> Values(d.updates)]]

\* self._send(payload): a fire-and-forget POST to the agent.
_send(d, payload) == [d EXCEPT !.eff = Append(@, "send:" \o payload.type)]

\* Defaults that stamp the status with the time of every call.
StatusWithDefaults_always_stamps(status, now, fresh) ==
    LET s1 == [k \in DOMAIN status \cup {"timestamp"} |->
                  IF k = "timestamp" THEN now ELSE status[k]]
        s2 == IF "uuid" \notin DOMAIN s1
              THEN s1 @@ ("uuid" :> encode_data(fresh)) ELSE s1
    IN  IF "source" \notin DOMAIN s2
        THEN s2 @@ ("source" :> "SOURCE_EXECUTOR") ELSE s2

\* The defaults update() writes into the caller's status dict; now is
\* int(time.time()) and fresh is uuid.uuid4().bytes.
StatusWithDefaults(status, now, fresh) ==
    LET s1 == IF "timestamp" \notin DOMAIN status
              THEN status @@ ("timestamp" :> now) ELSE status
        s2 == IF "uuid" \notin DOMAIN s1
              THEN s1 @@ ("uuid" :> encode_data(fresh)) ELSE s1
    IN  IF "source" \notin DOMAIN s2
        THEN s2 @@ ("source" :> "SOURCE_EXECUTOR") ELSE s2

UpdatePayload(status) ==
    [type |-> "UPDATE", framework_id |-> framework_id,
     executor_id |-> executor_id, update |-> [status |-> status]]

\* update(status): defaults, then the UPDATE request is sent.
update(d, status, now, fresh) ==
    _send(d, UpdatePayload(StatusWithDefaults(status, now, fresh)))

MessagePayload(data) ==
    [type |-> "MESSAGE", framework_id |-> framework_id,
     executor_id |-> executor_id, message |-> [data |-> encode_data(data)]]

\* message(message)
message(d, data) == _send(d, MessagePayload(data))

\* ------------------------------------------------------------------ inputs
Msg(type, hasPayload, task_id, spec, uuid, ex, fw, out) ==
    [type |-> type, hasPayload |-> hasPayload, task_id |-> task_id,
     spec |-> spec, uuid |-> uuid, ex |-> ex, fw |-> fw, out |-> out]

\* An operation that carries no event fields.
Op(type, out) == Msg(type, TRUE, 0, "-", encode_data(ShortBytes), "-", "-", out)

\* The inbound messages, with the outcome of the executor callback each one
\* reaches.
Messages ==
    {Msg("SUBSCRIBED", TRUE, 0, "-", encode_data(ShortBytes),
         executor_id.value, framework_id.value, out) : out \in CallbackOutcomes}
    \cup {Msg("SUBSCRIBED", TRUE, 0, "-", encode_data(ShortBytes), ex, fw, "ok") :
        ex \in ExecutorIds, fw \in FrameworkIds}
    \cup {Msg(type, TRUE, t, sp, encode_data(ShortBytes), "-", "-", out) :
        type \in {"LAUNCH", "LAUNCH_GROUP"}, t \in TaskIds, sp \in TaskSpecs,
        out \in CallbackOutcomes}
    \cup {Msg("ACKNOWLEDGED", TRUE, t, "-", encode_data(b), "-", "-", "ok") :
        t \in TaskIds, b \in Tokens \cup {ShortBytes}}
    \cup {Msg("KILL", TRUE, t, "-", encode_data(ShortBytes), "-", "-", out) :
        t \in TaskIds, out \in CallbackOutcomes}
    \cup {Op(type, out) :
        type \in {"MESSAGE", "ERROR", "SHUTDOWN"}, out \in CallbackOutcomes}
    \cup {Op(type, "ok") : type \in {"CLOSE", "HEARTBEAT"}}
    \cup {[Op(type, "ok") EXCEPT !.hasPayload = FALSE] :
        type \in HandlerTypes \ {"SHUTDOWN"}}

\* The status dicts the executor passes to update(): task_id and state are
\* required, the defaulted fields are present or not.
Optional(key, values) == {<<>>} \cup {key :> v : v \in values}
StatusInputs ==
    {("task_id" :> [value |-> t]) @@ ("state" :> "TASK_RUNNING") @@ ts @@ u @@ src :
        t \in TaskIds,
        ts \in Optional("timestamp", {0}),
        u \in Optional("uuid", {encode_data(b) : b \in Tokens}),
        src \in Optional("source", {"SOURCE_TEST"})}

\* The calls update(status) with the clock reading and the random token each
\* one draws; a call that has no use for one of them draws the first.
UpdateInputs ==
    {<<status, now, fresh>> \in StatusInputs \X Times \X Tokens :
        /\ "timestamp" \in DOMAIN status => now = 1
        /\ "uuid" \in DOMAIN status => fresh = 1}

\* The task id and token that identify a status that update() has sent.
StatusKey(status) == <<status.task_id.value, decode_data(status.uuid)>>

\* ----------------------------------------------------------------- actions
Init ==
    /\ tasks = <<>>
    /\ updates = <<>>
    /\ executor_info = None
    /\ framework_info = None
    /\ checkpoint \in BOOLEAN
    /\ local \in BOOLEAN
    /\ calls = [n \in CountedCallbacks |-> 0]
    /\ stopCalls = 0
    /\ abortCalls = 0
    /\ timersStarted = 0
    /\ timersFired = 0
    /\ killed = FALSE
    /\ loop = "running"
    /\ steps = 0
    /\ sent = {}
    /\ launched = [t \in TaskIds |-> 0]
    /\ ackSeen = FALSE
    /\ subscribedOk = 0
    /\ ackedAfterUpdate = {}
    /\ raised = 0
    /\ last = "none"

\* The driver fields and collaborator calls become those of d.
Store(d) ==
    /\ tasks' = d.tasks
    /\ updates' = d.updates
    /\ executor_info' = d.executor_info
    /\ framework_info' = d.framework_info
    /\ calls' = d.calls
    /\ stopCalls' = d.stopCalls
    /\ abortCalls' = d.abortCalls
    /\ timersStarted' = d.timersStarted

\* The event loop after _handle_events: stuck when a callback does not
\* return, ended when an exception leaves the coroutine.
LoopAfter(d) ==
    IF d.hang THEN "hung" ELSE IF d.exc # NoExc THEN "crashed" ELSE "running"

\* d.eff holds effect e.
Did(d, e) == \E i \in 1..Len(d.eff) : d.eff[i] = e

IsLaunch(m) == m.type \in {"LAUNCH", "LAUNCH_GROUP"} /\ m.hasPayload
IsAck(m) == m.type = "ACKNOWLEDGED" /\ m.hasPayload
IsMatchingSubscribed(m) ==
    /\ m.type = "SUBSCRIBED" /\ m.hasPayload
    /\ m.ex = executor_id.value /\ m.fw = framework_id.value
\* The status the acknowledgement m refers to.
AckKey(m) == <<m.task_id, decode_data(m.uuid)>>

\* The kind of the event m that left the driver as d: dropped as unhandled,
\* a SUBSCRIBED that a registered driver rejected by its identity
\* assertions, a KILL for a tracked task whose callback returned, or
\* another one.
EventKind(m, d) ==
    IF Did(d, "warn_unhandled") THEN "unhandled"
    ELSE IF /\ m.type = "SUBSCRIBED" /\ Did(d, "raise:AssertionError")
            /\ d.executor_info # None
         THEN "rejected"
    ELSE IF /\ m.type = "KILL" /\ d.eff = <<"call:on_kill">>
            /\ m.task_id \in DOMAIN d.tasks
         THEN "kill"
    ELSE "other"

\* The history variables after message m, which left the driver as d.
History(m, d) ==
    /\ launched' = IF IsLaunch(m)
                   THEN [launched EXCEPT ![m.task_id] = @ + 1] ELSE launched
    /\ ackSeen' = (ackSeen \/ IsAck(m))
    /\ subscribedOk' = IF IsMatchingSubscribed(m)
                       THEN subscribedOk + 1 ELSE subscribedOk
    /\ sent' = IF IsAck(m) THEN sent \ {AckKey(m)} ELSE sent
    /\ ackedAfterUpdate' =
          IF IsAck(m) /\ AckKey(m) \in sent /\ m.task_id \in DOMAIN tasks
          THEN ackedAfterUpdate \cup {m.task_id}
          ELSE IF IsLaunch(m) THEN ackedAfterUpdate \ {m.task_id}
          ELSE ackedAfterUpdate
    /\ raised' = IF Did(d, "raise:Exception") /\ Did(d, "log_exception")
                 THEN raised + 1 ELSE raised
    /\ last' = EventKind(m, d)

\* The event loop takes message m off the connection and runs _handle_events.
Dispatch(m) ==
    /\ loop = "running" /\ ~killed /\ steps < MaxSteps
    /\ LET d == _handle_events(Drv, m, m.out)
       IN  Store(d) /\ loop' = LoopAfter(d) /\ History(m, d)
    /\ steps' = steps + 1
    /\ UNCHANGED <<checkpoint, local, timersFired, killed>>

\* The connection layer reports a transport-level close by calling on_close()
\* itself; an exception of the callback goes back into that caller, which
\* handles it or not.
OnClose(out) ==
    /\ loop = "running" /\ ~killed /\ steps < MaxSteps
    /\ LET d == on_close(Drv, out)
       IN  /\ Store(d)
           /\ last' = (IF d.eff = <<>> THEN "close_ignored" ELSE "other")
           /\ IF d.exc # NoExc THEN loop' \in {"running", "crashed"}
              ELSE loop' = LoopAfter(d)
    /\ steps' = steps + 1
    /\ UNCHANGED <<checkpoint, local, timersFired, killed, sent, launched,
                   ackSeen, subscribedOk, ackedAfterUpdate, raised>>

\* The executor reports a status: driver.update(status).
Update(status, now, fresh) ==
    /\ loop = "running" /\ ~killed /\ steps < MaxSteps
    /\ Store(update(Drv, status, now, fresh))
    /\ sent' = sent \cup {StatusKey(StatusWithDefaults(status, now, fresh))}
    /\ last' = (IF DOMAIN status = {"task_id", "state"}
                THEN "defaulted" ELSE "other")
    /\ steps' = steps + 1
    /\ UNCHANGED <<checkpoint, local, timersFired, killed, loop, launched,
                   ackSeen, subscribedOk, ackedAfterUpdate, raised>>

\* The executor sends a framework message: driver.message(data).
Message ==
    /\ loop = "running" /\ ~killed /\ steps < MaxSteps
    /\ Store(message(Drv, "data"))
    /\ last' = "other"
    /\ steps' = steps + 1
    /\ UNCHANGED <<checkpoint, local, timersFired, killed, loop, sent,
                   launched, ackSeen, subscribedOk, ackedAfterUpdate, raised>>

\* The connection layer builds the subscription request of a (re)connect;
\* the request is gen_request(Drv), and building it assigns to no field.
GenRequest ==
    /\ loop = "running" /\ ~killed /\ steps < MaxSteps
    /\ gen_request(Drv).type = "SUBSCRIBE"
    /\ last' = "request"
    /\ steps' = steps + 1
    /\ UNCHANGED <<tasks, updates, executor_info, framework_info, checkpoint,
                   local, calls, stopCalls, abortCalls, timersStarted,
                   timersFired, killed, loop, sent, launched, ackSeen,
                   subscribedOk, ackedAfterUpdate, raised>>

\* The forced kill as a callback of the event loop instead of a thread.
TimerFire_on_loop(ok) ==
    /\ loop = "running"
    /\ timersFired < timersStarted /\ ~killed
    /\ timersFired' = timersFired + 1
    /\ killed' = ok
    /\ UNCHANGED <<tasks, updates, executor_info, framework_info, checkpoint,
                   local, calls, stopCalls, abortCalls, timersStarted,
                   loop, steps, sent, launched, ackSeen, subscribedOk,
                   ackedAfterUpdate, raised, last>>

\* A forced-kill thread wakes from time.sleep(grace_shutdown_period) and calls
\* os.killpg(0, SIGKILL); when the call raises, the failure is logged and the
\* thread ends.
TimerFire(ok) ==
    /\ timersFired < timersStarted /\ ~killed
    /\ timersFired' = timersFired + 1
    /\ killed' = ok
    /\ UNCHANGED <<tasks, updates, executor_info, framework_info, checkpoint,
                   local, calls, stopCalls, abortCalls, timersStarted,
                   loop, steps, sent, launched, ackSeen, subscribedOk,
                   ackedAfterUpdate, raised, last>>

Next ==
    \/ \E m \in Messages : Dispatch(m)
    \/ \E out \in CallbackOutcomes : OnClose(out)
    \/ \E in \in UpdateInputs : Update(in[1], in[2], in[3])
    \/ Message
    \/ GenRequest
    \/ \E ok \in BOOLEAN : TimerFire(ok)

Spec == Init /\ [][Next]_vars

\* The forced-kill threads are operating-system threads: a thread that has
\* been started is scheduled whatever the event loop is doing.
TimerStep == \E ok \in BOOLEAN : TimerFire(ok)
LiveSpec == Spec /\ WF_vars(TimerStep)

\* ------------------------------------------------------------- properties
\* The event loop is able to take the next message.
Ready == loop = "running" /\ ~killed

\* The driver as message m leaves it.
After(m) == _handle_events(Drv, m, m.out)

RECURSIVE SumOver(_, _)
SumOver(f, S) ==
    IF S = {} THEN 0
    ELSE LET x == CHOOSE y \in S : TRUE IN f[x] + SumOver(f, S \ {x})

\* The number of well-formed launch events received.
LaunchEvents == SumOver(launched, TaskIds)

\* The task ids and update keys a SUBSCRIBE request mentions.
RequestTasks(req) ==
    {req.subscribe.unacknowledged_tasks[i].task_id.value :
        i \in 1..Len(req.subscribe.unacknowledged_tasks)}
RequestUpdates(req) ==
    {StatusKey(req.subscribe.unacknowledged_updates[i]) :
        i \in 1..Len(req.subscribe.unacknowledged_updates)}

\* C1: self.updates holds exactly the statuses passed to update() and not
\* acknowledged since, and a SUBSCRIBE request built now carries exactly
\* those statuses as its unacknowledged updates.
C1_PendingUpdatesAreUnacknowledged ==
    /\ {StatusKey(updates[k]) : k \in DOMAIN updates} = sent
    /\ RequestUpdates(gen_request(Drv)) = sent
    /\ Len(gen_request(Drv).subscribe.unacknowledged_updates) = Cardinality(sent)

\* C2: once a tracked task with a sent status update has been acknowledged
\* with that update's token, and until the task is launched again, the task
\* is in neither collection and no SUBSCRIBE request built mentions it.
C2_AcknowledgedTaskIsForgotten ==
    \A t \in ackedAfterUpdate :
        /\ t \notin DOMAIN tasks
        /\ \A k \in DOMAIN updates : updates[k].task_id.value # t
        /\ t \notin RequestTasks(gen_request(Drv))
        /\ \A key \in RequestUpdates(gen_request(Drv)) : key[1] # t

\* A launched task has been acknowledged with the token of its update.
C2_Witness ==
    /\ \E t \in ackedAfterUpdate : launched[t] = 1 /\ calls["on_launch"] = 1
    /\ ackSeen /\ sent = {}

\* The update token of acknowledgement m is unknown to the driver: it is no
\* key of self.updates and no status sent and still unacknowledged bears it.
UnknownToken(m) ==
    /\ UUID(decode_data(m.uuid)) \notin DOMAIN updates
    /\ \A key \in sent : key[2] # decode_data(m.uuid)

AckMessages == {m \in Messages : IsAck(m)}

\* C3 as stated: an ACKNOWLEDGED event with an unknown update token or an
\* unknown task id leaves both collections unchanged.
C3_UnknownAckChangesNothing ==
    [][\A m \in AckMessages :
          Dispatch(m) /\ (UnknownToken(m) \/ m.task_id \notin DOMAIN tasks)
          => tasks' = tasks /\ updates' = updates]_vars

\* f keeps every entry of g, except possibly those under the keys in K.
KeepsAllBut(f, g, K) == \A x \in DOMAIN g \ K : x \in DOMAIN f /\ f[x] = g[x]

\* What an ACKNOWLEDGED event m does to the collections: it removes the task
\* under its task id and the update under its token, each whether or not
\* the other is known, and nothing else; with both unknown it changes
\* nothing; delivered again it changes nothing further.
AckRemovesItsOwnEntries(m) ==
    LET d == After(m)
        key == UUID(decode_data(m.uuid))
        again == _handle_events(d, m, m.out)
    IN  /\ KeepsAllBut(d.tasks, tasks, {m.task_id})
        /\ KeepsAllBut(d.updates, updates, {key})
        /\ DOMAIN d.tasks \subseteq DOMAIN tasks
        /\ DOMAIN d.updates \subseteq DOMAIN updates
        /\ UUIDValid(decode_data(m.uuid)) =>
              m.task_id \notin DOMAIN d.tasks /\ key \notin DOMAIN d.updates
        /\ (m.task_id \notin DOMAIN tasks /\ key \notin DOMAIN updates) =>
              d.tasks = tasks /\ d.updates = updates
        /\ again.tasks = d.tasks /\ again.updates = d.updates

\* C3 amended: only an ACKNOWLEDGED event removes entries from the tracked
\* collections, and it removes the entries under its own task id and update
\* token only, as AckRemovesItsOwnEntries says.
C3_AckRemovesItsOwnEntriesOnly ==
    /\ [](Ready => \A m \in AckMessages : AckRemovesItsOwnEntries(m))
    /\ [][(~KeepsAllBut(tasks', tasks, {}) \/ ~KeepsAllBut(updates', updates, {}))
             => \E m \in AckMessages : Dispatch(m)]_vars

\* An acknowledgement has removed one task while another stays tracked.
C3_Witness ==
    /\ ackSeen
    /\ DOMAIN tasks # {}
    /\ \E t \in TaskIds : launched[t] = 1 /\ t \notin DOMAIN tasks

\* C4: after launch events with pairwise distinct task ids and no
\* acknowledgement, the tracked tasks are as many as the launch events, and
\* so are the invocations of the launch callback.
C4_TrackedTasksCountLaunches ==
    ((\A t \in TaskIds : launched[t] <= 1) /\ ~ackSeen) =>
        /\ Cardinality(DOMAIN tasks) = LaunchEvents
        /\ calls["on_launch"] = LaunchEvents
        /\ \A t \in TaskIds : (launched[t] = 1) <=> (t \in DOMAIN tasks)

\* Several distinct tasks have been launched, a launch callback has failed,
\* and nothing has been acknowledged.
C4_Witness ==
    /\ \A t \in TaskIds : launched[t] <= 1
    /\ ~ackSeen
    /\ LaunchEvents >= 2
    /\ raised >= 1 /\ raised = steps

LaunchMessages == {m \in Messages : IsLaunch(m)}

\* C5: a launch event for a task id that is already tracked is fatal: the
\* dispatcher does not go on to process later events.
C5_DuplicateLaunchIsFatal ==
    [][\A m \in LaunchMessages :
          Dispatch(m) /\ m.task_id \in DOMAIN tasks => loop' # "running"]_vars

\* C6: over the SUBSCRIBED events with matching identity, the registered
\* callback is invoked once, on the first, and the re-registered callback on
\* every later one.
C6_RegisteredOnce ==
    /\ calls["on_registered"] = (IF subscribedOk >= 1 THEN 1 ELSE 0)
    /\ calls["on_reregistered"] = (IF subscribedOk >= 1 THEN subscribedOk - 1 ELSE 0)
    /\ (subscribedOk >= 1) <=> (executor_info # None /\ framework_info # None)

\* Two matching SUBSCRIBED events, the callback of each of which raised.
C6_Witness ==
    /\ subscribedOk = 2 /\ steps = 2 /\ raised = 2
    /\ calls["on_registered"] = 1 /\ calls["on_reregistered"] = 1

\* C7: a SHUTDOWN event arms the forced-kill timer unless local, then
\* invokes the shutdown callback, then stops the connection; the connection
\* is stopped whether the callback returns or raises.
C7_ShutdownAlwaysStops ==
    [][\A out \in {"ok", "raise"} :
          Dispatch(Op("SHUTDOWN", out)) =>
              /\ stopCalls' = stopCalls + 1
              /\ LET eff == on_shutdown(Drv, out).eff
                     first == IF local THEN 1 ELSE 2
                 IN  /\ ~local => eff[1] = "arm_timer"
                     /\ eff[first] = "call:on_shutdown"
                     /\ eff[Len(eff)] = "stop"]_vars

\* C8: a forced-kill timer that has been armed fires, whatever the event
\* loop does; no step disarms it.
C8_ArmedTimerFires ==
    /\ [][/\ timersStarted' >= timersStarted
          /\ timersFired' >= timersFired
          /\ (timersFired < timersStarted /\ ~TimerStep)
                => timersFired' < timersStarted']_vars
    /\ \A n \in 1..MaxSteps :
          (timersStarted >= n) ~> (timersFired >= n \/ killed)

\* The shutdown callback never returned, and the process group was killed.
C8_Witness ==
    /\ loop = "hung" /\ timersStarted > 0 /\ timersFired > 0 /\ killed
    /\ stopCalls = 0 /\ abortCalls = 0

\* The driver d, after a CLOSE, has armed the forced-kill timer unless local,
\* invoked the executor's on_shutdown callback once and aborted the
\* connection without stopping it.
CloseDoesShutdown(d) ==
    /\ ~local => d.timersStarted = timersStarted + 1
    /\ Cardinality({i \in 1..Len(d.eff) : d.eff[i] = "call:on_shutdown"}) = 1
    /\ d.abortCalls = abortCalls + 1
    /\ d.stopCalls = stopCalls

\* C9: a CLOSE while the checkpoint flag is not set, whether dispatched as a
\* message or reported by a call of on_close(), arms the forced-kill timer
\* unless local, invokes the executor's on_shutdown callback once and
\* aborts the connection.
C9_CloseShutsDownAndAborts ==
    [][~checkpoint =>
          /\ \A m \in Messages :
                m.type = "CLOSE" /\ Dispatch(m) => CloseDoesShutdown(After(m))
          /\ OnClose("ok") => CloseDoesShutdown(on_close(Drv, "ok"))]_vars

\* The messages whose handler invokes an executor callback that raises.
RaisingMessages ==
    {m \in Messages :
        /\ m.type \in {"SUBSCRIBED", "LAUNCH", "LAUNCH_GROUP", "KILL",
                       "MESSAGE", "ERROR"}
        /\ m.out = "raise"}

\* C10: an exception of an executor callback is logged by the dispatcher: it
\* does not leave _handle_events, the connection is neither stopped nor
\* aborted, and the loop goes on to take the next event.
C10_CallbackFailureIsIsolated ==
    Ready =>
        \A m \in RaisingMessages :
            LET d == After(m)
            IN  Did(d, "raise:Exception") =>
                    /\ d.exc = NoExc
                    /\ Did(d, "log_exception")
                    /\ LoopAfter(d) = "running"
                    /\ d.stopCalls = stopCalls
                    /\ d.abortCalls = abortCalls

\* Every event so far ended in a callback exception and there were at least
\* two, so events were dispatched after a callback had raised; the loop
\* still runs and the handlers ran: a registration and a task are recorded.
C10_Witness ==
    /\ raised = steps /\ steps >= 2
    /\ Ready /\ stopCalls = 0 /\ abortCalls = 0
    /\ subscribedOk >= 1 /\ DOMAIN tasks # {}

\* The inbound messages whose type is no key of self._handlers.
UnknownMessages == {m \in Messages : m.type \notin HandlerTypes}

\* C11: a message of unknown type is dropped with a warning: no executor
\* callback is invoked, tasks, updates and the registration are unchanged,
\* the connection is neither stopped nor aborted, no timer is armed, and
\* the loop goes on to take the next event.
C11_UnknownTypeIsDropped ==
    Ready =>
        \A m \in UnknownMessages :
            LET d == After(m)
            IN  /\ d.eff = <<"warn_unhandled">>
                /\ d.tasks = tasks /\ d.updates = updates
                /\ d.executor_info = executor_info
                /\ d.framework_info = framework_info
                /\ d.calls = calls
                /\ d.stopCalls = stopCalls /\ d.abortCalls = abortCalls
                /\ d.timersStarted = timersStarted
                /\ LoopAfter(d) = "running"

\* A message of unknown type has just been dropped by a driver that tracks a
\* task, and the loop is ready to take a further event.
C11_Witness ==
    /\ last = "unhandled" /\ Ready /\ steps < MaxSteps
    /\ DOMAIN tasks # {}

\* C12: while the checkpoint flag is set no forced-kill timer is ever armed,
\* whatever events arrive, and so none fires and none kills the process group.
C12_CheckpointNeverArms ==
    checkpoint => timersStarted = 0 /\ timersFired = 0 /\ ~killed

\* C13: while the local flag is set no forced-kill timer is ever armed,
\* whatever events arrive and whatever the checkpoint flag says, and so none
\* fires and none kills the process group.
C13_LocalNeverArms ==
    local => timersStarted = 0 /\ timersFired = 0 /\ ~killed

\* In local mode a SHUTDOWN has stopped the connection and a close has
\* aborted it, and no timer was armed.
C13_Witness ==
    /\ local /\ stopCalls >= 1 /\ abortCalls >= 1
    /\ timersStarted = 0

\* The elements of sequence q.
Range(q) == {q[i] : i \in 1..Len(q)}

\* Contents that self.updates can be given: statuses under the UUID of
\* their token.
UpdateDicts ==
    UNION {{[k \in {UUID(b) : b \in K} |->
                ("task_id" :> [value |-> f[k[2]]]) @@ ("state" :> "TASK_RUNNING")
                @@ ("uuid" :> encode_data(k[2]))] : f \in [K -> TaskIds]} :
           K \in SUBSET Tokens}

\* Request req lists exactly the values of dicts t and u and names the driver.
ListsExactly(req, t, u) ==
    /\ req.type = "SUBSCRIBE"
    /\ req.framework_id = framework_id /\ req.executor_id = executor_id
    /\ Range(req.subscribe.unacknowledged_tasks) = {t[k] : k \in DOMAIN t}
    /\ Len(req.subscribe.unacknowledged_tasks) = Cardinality(DOMAIN t)
    /\ Range(req.subscribe.unacknowledged_updates) = {u[k] : k \in DOMAIN u}
    /\ Len(req.subscribe.unacknowledged_updates) = Cardinality(DOMAIN u)

\* C14: the SUBSCRIBE request gen_request builds names the local framework
\* and executor and lists exactly the values of self.tasks and of
\* self.updates; a request just built would have listed exactly the values
\* of self.updates whatever that dict held; building a request changes
\* neither collection nor the registration.
C14_RequestListsTrackedState ==
    /\ [](/\ ListsExactly(gen_request(Drv), tasks, updates)
          /\ last = "request" =>
                \A u \in UpdateDicts :
                    ListsExactly(gen_request([Drv EXCEPT !.updates = u]),
                                 tasks, u))
    /\ [][GenRequest => UNCHANGED <<tasks, updates, executor_info,
                                    framework_info>>]_vars

\* A request has just been built while every task id is tracked.
C14_Witness ==
    /\ last = "request" /\ DOMAIN tasks = TaskIds
    /\ Len(gen_request(Drv).subscribe.unacknowledged_tasks) = MaxTasks

\* C15: every tracked task is stored under its own id, and a LAUNCH or
\* LAUNCH_GROUP event for an id that is already tracked leaves self.tasks as
\* it was, the first task_info kept, and does not invoke the launch callback.
C15_DuplicateLaunchKeepsEntry ==
    /\ \A t \in DOMAIN tasks : tasks[t].task_id.value = t
    /\ Ready =>
          \A m \in LaunchMessages :
              m.task_id \in DOMAIN tasks =>
                  LET d == After(m)
                  IN  /\ d.tasks = tasks
                      /\ d.calls = calls
                      /\ ~Did(d, "call:on_launch")

\* A task has been launched twice with no acknowledgement in between: it is
\* tracked and the launch callback ran once.
C15_Witness ==
    /\ ~ackSeen
    /\ \E t \in DOMAIN tasks : launched[t] = 2
    /\ calls["on_launch"] = 1

\* The well-formed KILL, MESSAGE and ERROR events.
NotifyMessages ==
    {m \in Messages : m.type \in {"KILL", "MESSAGE", "ERROR"} /\ m.hasPayload}

\* The executor callback the handler of each of them invokes.
CallbackOf(type) ==
    CASE type = "KILL" -> "on_kill"
      [] type = "MESSAGE" -> "on_message"
      [] type = "ERROR" -> "on_error"

\* The executor callbacks d.eff records, in the order of their invocation.
CallsOf(d) ==
    SelectSeq(d.eff, LAMBDA e :
        e \in {"call:" \o n : n \in {"on_registered", "on_reregistered",
                                     "on_launch", "on_kill", "on_message",
                                     "on_error", "on_shutdown", "shutdown"}})

\* C16: a KILL, MESSAGE or ERROR event invokes its one executor callback
\* and nothing else of the executor, whether the callback returns, raises
\* or hangs, and leaves tasks, updates and the registration unchanged; a
\* task that a KILL names stays tracked, and a SUBSCRIBE request built
\* after the KILL lists it.
C16_NotificationsChangeNothing ==
    Ready =>
        \A m \in NotifyMessages :
            LET d == After(m)
            IN  /\ CallsOf(d) = <<"call:" \o CallbackOf(m.type)>>
                /\ d.tasks = tasks /\ d.updates = updates
                /\ d.executor_info = executor_info
                /\ d.framework_info = framework_info
                /\ (m.type = "KILL" /\ m.task_id \in DOMAIN tasks) =>
                      /\ d.tasks[m.task_id] = tasks[m.task_id]
                      /\ m.task_id \in RequestTasks(gen_request(d))

\* A KILL for a tracked task has just been dispatched and its callback has
\* returned: every task tracked before is tracked and in the request.
C16_Witness ==
    /\ last = "kill" /\ ~ackSeen
    /\ DOMAIN tasks # {}
    /\ RequestTasks(gen_request(Drv)) = {t \in TaskIds : launched[t] >= 1}

\* The fields update() gives a default.
DefaultedFields == {"timestamp", "uuid", "source"}

\* The clock readings and random tokens of a second call of update(): the
\* clock may have moved on and uuid4() draws another token.
LaterTimes == 1..(MaxClock + 1)
OtherTokens == 1..(MaxTokens + 1)

\* What update() does to the status of each of its calls: each of
\* timestamp, uuid and source that the status lacks gets its default (the
\* clock reading, the encoded fresh token, SOURCE_EXECUTOR), no field the
\* status has is changed, and a second call on the status so filled in, at
\* a later time and with another random token, leaves every field as the
\* first call set it.
DefaultsOnceOnly ==
    \A in \in UpdateInputs :
        LET status == in[1]
            first == StatusWithDefaults(status, in[2], in[3])
        IN  /\ DOMAIN first = DOMAIN status \cup DefaultedFields
            /\ \A k \in DOMAIN status : first[k] = status[k]
            /\ "timestamp" \notin DOMAIN status => first.timestamp = in[2]
            /\ "uuid" \notin DOMAIN status => first.uuid = encode_data(in[3])
            /\ "source" \notin DOMAIN status => first.source = "SOURCE_EXECUTOR"
            /\ \A now \in LaterTimes, fresh \in OtherTokens :
                  StatusWithDefaults(first, now, fresh) = first

\* C17: update() defaults the missing ones of timestamp, uuid and source,
\* changes no field that is present, and is idempotent on the status it has
\* filled in (DefaultsOnceOnly); so every status sent bears a token.
C17_DefaultingIsIdempotent ==
    /\ DefaultsOnceOnly
    /\ \A key \in sent : key[2] \in Tokens

\* update() has just been called with a status that had none of the three
\* fields, and the status it sent bears a token the driver drew.
C17_Witness ==
    /\ last = "defaulted"
    /\ \E key \in sent : key[2] \in Tokens

\* C18: at most one forced-kill thread is ever started, a step of such a
\* thread leaves tasks and updates alone, and only a step of the event loop
\* or a call into the driver changes them.
C18_OneKillThread ==
    /\ [](timersStarted <= 1)
    /\ [][TimerStep => UNCHANGED <<tasks, updates>>]_vars
    /\ [][(tasks' # tasks \/ updates' # updates) =>
             \E m \in Messages : Dispatch(m)]_vars

\* The well-formed SUBSCRIBED events.
SubscribedMessages ==
    {m \in Messages : m.type = "SUBSCRIBED" /\ m.hasPayload}

\* SUBSCRIBED payloads of the local identity whose infos carry content that
\* the stored infos do not have.
RenamedInfos ==
    {[executor_info |-> [executor_id |-> executor_id, name |-> n],
      framework_info |-> [id |-> framework_id, name |-> n],
      agent_info |-> "agent"] : n \in {"renamed"}}

\* C19: the stored executor_info and framework_info carry the local ids and
\* no step changes them once they are set; a SUBSCRIBED event with another
\* executor id or framework id invokes no callback and leaves them as they
\* were; a SUBSCRIBED event to a registered driver, of the local identity
\* or not, with the same infos or others, leaves them as they were.
C19_RegistrationNeverChanges ==
    /\ [](/\ executor_info # None => executor_info.executor_id = executor_id
          /\ framework_info # None => framework_info.id = framework_id
          /\ (executor_info = None) <=> (framework_info = None)
          /\ Ready =>
                /\ \A m \in SubscribedMessages :
                      LET d == After(m)
                      IN  /\ ~IsMatchingSubscribed(m) =>
                                /\ CallsOf(d) = <<>>
                                /\ d.executor_info = executor_info
                                /\ d.framework_info = framework_info
                          /\ executor_info # None =>
                                /\ d.executor_info = executor_info
                                /\ d.framework_info = framework_info
                /\ executor_info # None =>
                      \A info \in RenamedInfos, out \in CallbackOutcomes :
                          LET d == on_subscribed(Drv, info, out)
                          IN  /\ d.executor_info = executor_info
                              /\ d.framework_info = framework_info)
    /\ [][/\ executor_info # None => executor_info' = executor_info
          /\ framework_info # None => framework_info' = framework_info]_vars

\* A registered driver has just rejected a SUBSCRIBED event of another
\* identity: the registered callback ran once, the re-registered one never.
C19_Witness ==
    /\ last = "rejected"
    /\ executor_info # None /\ framework_info # None
    /\ calls["on_registered"] = 1 /\ calls["on_reregistered"] = 0

\* C20: while the checkpoint flag is set a close of the connection, reported
\* by a call of on_close() or dispatched as a CLOSE message, arms no timer,
\* invokes no executor callback, neither stops nor aborts the connection
\* and changes no field, so that a request built after it lists the tracked
\* tasks; the loop goes on.
C20_CheckpointedCloseIsNoOp ==
    (checkpoint /\ Ready) =>
        /\ \A out \in CallbackOutcomes :
              LET d == on_close(Drv, out)
              IN  d = Drv /\ gen_request(d) = gen_request(Drv)
        /\ \A m \in Messages :
              m.type = "CLOSE" =>
                  LET d == After(m)
                  IN  /\ CallsOf(d) = <<>>
                      /\ ~Did(d, "arm_timer") /\ ~Did(d, "stop") /\ ~Did(d, "abort")
                      /\ [d EXCEPT !.eff = <<>>] = Drv
                      /\ LoopAfter(d) = "running"

\* With the checkpoint flag set, on_close() has just returned without doing
\* anything while a task is tracked.
C20_Witness ==
    /\ checkpoint /\ last = "close_ignored" /\ Ready
    /\ DOMAIN tasks # {}
    /\ timersStarted = 0 /\ abortCalls = 0 /\ stopCalls = 0

====
